---------------------------- MODULE Spec2Model ----------------------------
(***************************************************************************)
(* tar2zip: the tar walker of app.js (validateTarHeader, processTarToZip). *)
(*                                                                         *)
(* The archive buffer is a Uint8Array.  It is kept as a sequence of        *)
(* 512-byte blocks, each described by the bytes of its header fields, plus *)
(* a number of trailing bytes; ByteAt gives the byte at every index, and   *)
(* the code's slices, text decoding, parseInt and checksum are computed on *)
(* those bytes.  All bytes are ASCII, so TextDecoder maps a byte to the    *)
(* character of the same code.                                             *)
(***************************************************************************)
EXTENDS Integers, Sequences, FiniteSets, TLC

(***************************************************************************)
(* Bounds of the model.                                                    *)
(***************************************************************************)
\* longest archive, in whole blocks
MaxBlocks == 4
\* most calls the sink records in one walk: a walk that returns to a header
\* it already dispatched would otherwise record calls without end
MaxCalls == MaxBlocks + 1

(***************************************************************************)
(* Program constants.                                                      *)
(***************************************************************************)
BlockSize == 512
\* (variant) the walk gives up at the second invalid header in a row
maxConsecutiveErrorsLow == 3 - 1

maxConsecutiveErrors == 3

\* the value parseInt gives for text that starts with no octal digit, and
\* every number computed from it; TLC compares only values of one kind, so
\* it is kept as a number that no field of the model's archives decodes to
NaN == 0 - 1000000000

(***************************************************************************)
(* Bytes and text.                                                         *)
(***************************************************************************)
ustar == <<117, 115, 116, 97, 114>>
PaxHeader == <<80, 97, 120, 72, 101, 97, 100, 101, 114>>

\* the characters String.prototype.trim removes (NUL is not one of them)
IsWhiteSpace(c) == c \in {9, 10, 11, 12, 13, 32}

IsOctalDigit(c) == c >= 48 /\ c <= 55

RECURSIVE TrimStart(_)
TrimStart(s) ==
    IF s # <<>> /\ IsWhiteSpace(Head(s)) THEN TrimStart(Tail(s)) ELSE s

RECURSIVE TrimEnd(_)
TrimEnd(s) ==
    IF s # <<>> /\ IsWhiteSpace(s[Len(s)])
    THEN TrimEnd(SubSeq(s, 1, Len(s) - 1))
    ELSE s

trim(s) == TrimEnd(TrimStart(s))

\* s.replace(/\0/g, '')
RemoveNul(s) == SelectSeq(s, LAMBDA c : c # 0)

\* s.includes(t)
includes(s, t) ==
    \E i \in 1..(Len(s) - Len(t) + 1) : SubSeq(s, i, i + Len(t) - 1) = t

\* the value of the longest prefix of octal digits of s, after acc
RECURSIVE OctalPrefix(_, _)
OctalPrefix(s, acc) ==
    IF s # <<>> /\ IsOctalDigit(Head(s))
    THEN OctalPrefix(Tail(s), acc * 8 + (Head(s) - 48))
    ELSE acc

\* parseInt(s, 8): leading white space, an optional sign, then the longest
\* prefix of octal digits; NaN when there is no digit
parseInt8(s) ==
    LET t == TrimStart(s)
        neg == t # <<>> /\ Head(t) = 45
        signed == t # <<>> /\ Head(t) \in {43, 45}
        d == IF signed THEN Tail(t) ELSE t
    IN  IF d = <<>> \/ ~IsOctalDigit(Head(d)) THEN NaN
        ELSE IF neg THEN 0 - OctalPrefix(d, 0) ELSE OctalPrefix(d, 0)

\* (variant) Math.floor in place of Math.ceil
FloorBlock(x) == IF x = NaN THEN NaN ELSE (x \div BlockSize) * BlockSize

\* Math.ceil(x / 512) * 512
CeilBlock(x) ==
    IF x = NaN THEN NaN ELSE (0 - ((0 - x) \div BlockSize)) * BlockSize

\* a + b of JavaScript numbers
Plus(a, b) == IF a = NaN \/ b = NaN THEN NaN ELSE a + b

\* a < b and a > b of JavaScript numbers: false when either is NaN
Less(a, b) == a # NaN /\ b # NaN /\ a < b

Greater(a, b) == Less(b, a)

(***************************************************************************)
(* Blocks of an input archive.  A block is given by the text of its header *)
(* fields; every byte no field covers is the block's fill byte.            *)
(***************************************************************************)
\* six octal digits of n, a NUL and a space: the checksum field tar writes
Octal6(n) ==
    << 48 + ((n \div 32768) % 8), 48 + ((n \div 4096) % 8),
       48 + ((n \div 512) % 8),   48 + ((n \div 64) % 8),
       48 + ((n \div 8) % 8),     48 + (n % 8), 0, 32 >>

FieldByte(f, k, fill) == IF k < Len(f) THEN f[k + 1] ELSE fill

\* byte i of block b with the checksum field read as spaces
RawByte(b, i) ==
    IF i < 100 THEN FieldByte(b.name, i, b.fill)
    ELSE IF i >= 124 /\ i < 136 THEN FieldByte(b.size, i - 124, b.fill)
    ELSE IF i >= 148 /\ i < 156 THEN 32
    ELSE IF i = 156 THEN b.type
    ELSE IF i >= 157 /\ i < 257 THEN FieldByte(b.link, i - 157, b.fill)
    ELSE IF i >= 257 /\ i < 262 THEN FieldByte(b.magic, i - 257, b.fill)
    ELSE b.fill

\* the sum of RawByte(b, i) for lo <= i < hi, by halves
RECURSIVE RawSumRange(_, _, _)
RawSumRange(b, lo, hi) ==
    IF hi - lo = 1 THEN RawByte(b, lo)
    ELSE LET mid == (lo + hi) \div 2
         IN  RawSumRange(b, lo, mid) + RawSumRange(b, mid, hi)

RawSum(b) == RawSumRange(b, 0, BlockSize)

\* the eight bytes of the checksum field of block b
ChkField(b) ==
    IF b.chk = "good" THEN Octal6(RawSum(b))
    ELSE IF b.chk = "bad" THEN Octal6(RawSum(b) + 1)
    ELSE [k \in 1..8 |-> b.fill]

\* the 512 bytes of block b, as a sequence (byte i is element i + 1)
BlockBytes(b) ==
    LET c == ChkField(b)
    IN  [k \in 1..BlockSize |->
            IF k > 148 /\ k <= 156 THEN c[k - 148] ELSE RawByte(b, k - 1)]

(***************************************************************************)
(* The blocks the model's archives are made of.                            *)
(***************************************************************************)
Filled(c) ==
    [name |-> <<>>, size |-> <<>>, chk |-> "none", type |-> c, link |-> <<>>,
     magic |-> <<>>, fill |-> c]

\* an all-zero block: the end-of-archive marker
ZeroBlock == Filled(0)

\* a block of content bytes 'h': no header
DataBlock == Filled(104)

\* a ustar header with a correct checksum
Hdr(name, type, size) ==
    [name |-> name, size |-> size, chk |-> "good", type |-> type,
     link |-> IF type = 50 THEN <<116>> ELSE <<>>, magic |-> ustar, fill |-> 0]

\* size fields: "0", "1", "777" (511), "1000" (512), "1001" (513), "x" (no
\* octal digit), "-1001" (-513), "-3001" (-1537)
Size0 == <<48>>
Size1 == <<49>>
Size511 == <<55, 55, 55>>
Size512 == <<49, 48, 48, 48>>
Size513 == <<49, 48, 48, 49>>
SizeGarbage == <<120>>
SizeMinus513 == <<45, 49, 48, 48, 49>>
SizeMinus1537 == <<45, 51, 48, 48, 49>>

\* type bytes: '0', NUL, '2', '5', '3'
TypeFile == 48
TypeNul == 0
TypeLink == 50
TypeDir == 53
TypeOther == 51

NameA == <<97>>
NamePax == PaxHeader \o <<47, 97>>

\* a header whose stored checksum is off by one, claiming 513 content bytes
BadChecksum == [Hdr(NameA, TypeFile, Size513) EXCEPT !.chk = "bad"]

\* the names, type bytes and size fields the model's headers are built from
Names == <<NameA, NamePax>>
Types == <<TypeFile, TypeNul, TypeLink, TypeDir, TypeOther>>
Sizes == <<Size0, Size1, Size511, Size512, Size513, SizeGarbage,
           SizeMinus513, SizeMinus1537>>

\* An archive names its blocks: the empty block, the content block, the
\* header with the bad checksum, or the header with name Names[n], type
\* Types[t] and size Sizes[z].
Named(kind, n, t, z) == [kind |-> kind, name |-> n, type |-> t, size |-> z]
Zero == Named("zero", 1, 1, 1)
Data == Named("data", 1, 1, 1)
Bad == Named("bad", 1, 1, 1)
Header(n, t, z) == Named("header", n, t, z)

\* name "a", type '0', size "1"; and name "a", type '5', size "0"
File1 == Header(1, 1, 2)
Dir0 == Header(1, 4, 1)

\* entries that make no sink call: an empty regular file, an entry of a
\* type the switch skips, and a PaxHeader entry of directory type
File0 == Header(1, 1, 1)
Other0 == Header(1, 5, 1)
PaxDir0 == Header(2, 4, 1)

\* the blocks an archive may hold at any place
CoreBlocks == {Zero, Data, Bad, File1, Dir0}

\* every header the model builds: the first block of an archive may be any
AllHeaders ==
    { Header(n, t, z) :
        n \in DOMAIN Names, t \in DOMAIN Types, z \in DOMAIN Sizes }

\* the bytes of every block, computed once
ZeroBytes == BlockBytes(ZeroBlock)
DataBytes == BlockBytes(DataBlock)
BadBytes == BlockBytes(BadChecksum)
HeaderBytes ==
    [n \in DOMAIN Names |-> [t \in DOMAIN Types |-> [z \in DOMAIN Sizes |->
        BlockBytes(Hdr(Names[n], Types[t], Sizes[z]))]]]

\* the 512 bytes of the block named b
BytesOf(b) ==
    IF b.kind = "zero" THEN ZeroBytes
    ELSE IF b.kind = "data" THEN DataBytes
    ELSE IF b.kind = "bad" THEN BadBytes
    ELSE HeaderBytes[b.name][b.type][b.size]

\* sequences over S of length at most n
SeqsUpTo(S, n) == UNION { [1..k -> S] : k \in 0..n }

\* the input archives: any blocks of CoreBlocks; any header followed by
\* content, entry and end blocks; and nothing or one entry followed by any
\* number of bytes short of a block
Archives ==
    { [blocks |-> bs, tail |-> 0] : bs \in SeqsUpTo(CoreBlocks, MaxBlocks) }
    \cup
    { [blocks |-> <<h>> \o bs, tail |-> 0] :
        h \in AllHeaders, bs \in SeqsUpTo({Data, Dir0, Zero}, MaxBlocks - 1) }
    \cup
    { [blocks |-> bs, tail |-> t] :
        bs \in {<<>>, <<Dir0>>}, t \in 0..(BlockSize - 1) }
    \cup
    { [blocks |-> bs, tail |-> 0] :
        bs \in SeqsUpTo({File0, Other0, PaxDir0, Zero}, MaxBlocks - 1) }
    \cup
    { [blocks |-> pre \o <<e>> \o post, tail |-> 0] :
        pre \in {<<Bad>>, <<Bad, Bad>>},
        e \in {File0, Other0, PaxDir0},
        post \in SeqsUpTo({Bad}, MaxBlocks - 3) }

(***************************************************************************)
(* Uint8Array.                                                             *)
(***************************************************************************)
Min(a, b) == IF a < b THEN a ELSE b
Max(a, b) == IF a > b THEN a ELSE b

\* u.length
Length(u) == BlockSize * Len(u.blocks) + u.tail

\* the bytes of the given blocks, in order
RECURSIVE Concat(_)
Concat(bs) == IF bs = <<>> THEN <<>> ELSE BytesOf(Head(bs)) \o Concat(Tail(bs))

\* the bytes of u, as a sequence (u[i] is element i + 1); the bytes after
\* the last whole block are zero
Bytes(u) == Concat(u.blocks) \o [i \in 1..u.tail |-> 0]

\* u[i], 0 <= i < u.length
ByteAt(u, i) == Bytes(u)[i + 1]

\* where TypedArray.prototype.slice puts an index: a negative one counts
\* from the end, and both ends are clamped to the array
RelativeIndex(i, len) == IF i < 0 THEN Max(len + i, 0) ELSE Min(i, len)

\* u.slice(start, end), as a sequence of bytes
Slice(u, start, end) ==
    LET k == RelativeIndex(start, Length(u))
        final == RelativeIndex(end, Length(u))
    IN  IF final > k THEN SubSeq(Bytes(u), k + 1, final) ELSE <<>>

\* header.slice(start, end) of a sequence of bytes, 0 <= start <= end
SeqSlice(h, start, end) == SubSeq(h, Min(start, Len(h)) + 1, Min(end, Len(h)))

(***************************************************************************)
(* validateTarHeader                                                       *)
(***************************************************************************)
\* what the loop adds to calculatedChecksum for the indices lo <= i < hi:
\* the checksum field counts as spaces, and a byte past the end of header
\* is undefined, which makes the sum NaN.  The sum is taken by halves (the
\* order of the additions does not change it).
RECURSIVE calculatedChecksum(_, _, _)
calculatedChecksum(header, lo, hi) ==
    IF hi - lo = 1
    THEN IF lo >= 148 /\ lo < 156 THEN 32
         ELSE IF lo < Len(header) THEN header[lo + 1] ELSE NaN
    ELSE LET mid == (lo + hi) \div 2
         IN  Plus(calculatedChecksum(header, lo, mid),
                  calculatedChecksum(header, mid, hi))

\* a === b of JavaScript numbers
StrictEquals(a, b) == a # NaN /\ b # NaN /\ a = b

validateTarHeader(header) ==
    LET ustarMagic == SeqSlice(header, 257, 262)
        storedChecksum == parseInt8(trim(SeqSlice(header, 148, 156)))
    IN  IF ustarMagic # ustar THEN FALSE
        ELSE StrictEquals(storedChecksum,
                          calculatedChecksum(header, 0, BlockSize))

(***************************************************************************)
(* processTarToZip                                                         *)
(***************************************************************************)
VARIABLES
    uint8Array,         \* the archive buffer
    zip,                \* the calls the sink has received, in order
    offset,
    fileCount,
    consecutiveErrors,
    pc,                 \* "loop": at the while test; "returned"; "thrown"
    error,              \* the error thrown to the caller
    tests,              \* the number of while tests made so far, modulo 2:
                        \* it tells an iteration that changes nothing from
                        \* no iteration at all
    pending             \* the locals of another convertToZip call that is
                        \* in flight and waits at an await; NoConversion
                        \* if there is none

vars ==
    <<uint8Array, zip, offset, fileCount, consecutiveErrors, pc, error, tests,
      pending>>

NoError == [msg |-> "", cause |-> "", name |-> <<>>]
Error(msg) == [msg |-> msg, cause |-> "", name |-> <<>>]

UnexpectedEndOfTar == "Unexpected end of tar file"
UnexpectedEndOfFile == "Unexpected end of file while reading"
NoValidFiles == "No valid files found in the archive"
MultipleInvalid == "Multiple invalid headers found - file might be corrupted"
FailedToProcess == "Failed to process tar file"

\* (variant) the catch block looks for a text no message holds
IncludesLowercaseUnexpectedEnd(e) == e.msg \in {"unexpected end"}

\* error.message.includes("Unexpected end")
IncludesUnexpectedEnd(e) == e.msg \in {UnexpectedEndOfTar, UnexpectedEndOfFile}

\* the locals of a call: those of convertToZip and of the walk it makes
Locals(u, z, o, f, c, p, e, t) ==
    [uint8Array |-> u, zip |-> z, offset |-> o, fileCount |-> f,
     consecutiveErrors |-> c, pc |-> p, error |-> e, tests |-> t]

NoConversion ==
    Locals([blocks |-> <<>>, tail |-> 0], <<>>, 0, 0, 0, "none", NoError, 0)

Init ==
    /\ uint8Array \in Archives
    /\ zip = <<>>
    /\ offset = 0
    /\ fileCount = 0
    /\ consecutiveErrors = 0
    /\ pc = "loop"
    /\ error = NoError
    /\ tests = 0
    /\ pending = NoConversion

\* header.every(byte => byte === 0)
EveryZero(header) == { k \in 1..Len(header) : header[k] # 0 } = {}

\* new TextDecoder().decode(header.slice(0, 100)).trim().replace(/\0/g, '')
Filename(header) == RemoveNul(trim(SeqSlice(header, 0, 100)))

\* String.fromCharCode(header[156]): a string of one character
FileType(header) == <<header[157]>>

\* parseInt(new TextDecoder().decode(header.slice(124, 136)).trim(), 8)
Size(header) == parseInt8(trim(SeqSlice(header, 124, 136)))

\* new TextDecoder().decode(header.slice(157, 257)).trim().replace(/\0/g, '')
Linkname(header) == RemoveNul(trim(SeqSlice(header, 157, 257)))

\* what one iteration reads from its header block: fields are decoded
\* only from a header that passed validateTarHeader
Decode(header) ==
    LET valid == validateTarHeader(header)
    IN  [everyZero |-> EveryZero(header),
         valid     |-> valid,
         filename  |-> IF valid THEN Filename(header) ELSE <<>>,
         fileType  |-> IF valid THEN FileType(header) ELSE <<>>,
         size      |-> IF valid THEN Size(header) ELSE NaN,
         linkname  |-> IF valid THEN Linkname(header) ELSE <<>>]

\* Decode of every block, computed once
DecodedZero == Decode(ZeroBytes)
DecodedData == Decode(DataBytes)
DecodedBad == Decode(BadBytes)
DecodedHeader ==
    [n \in DOMAIN Names |-> [t \in DOMAIN Types |-> [z \in DOMAIN Sizes |->
        Decode(HeaderBytes[n][t][z])]]]

\* Decode(BytesOf(b))
DecodedBlock(b) ==
    IF b.kind = "zero" THEN DecodedZero
    ELSE IF b.kind = "data" THEN DecodedData
    ELSE IF b.kind = "bad" THEN DecodedBad
    ELSE DecodedHeader[b.name][b.type][b.size]

\* the header block read at offset
HeaderAt(u, off) == Slice(u, off, off + BlockSize)

\* Decode(HeaderAt(u, off)); for a header that is one whole block of u it is
\* taken from DecodedBlock
Scan(u, off) ==
    LET k == RelativeIndex(off, Length(u))
        final == RelativeIndex(off + BlockSize, Length(u))
    IN  IF /\ final - k = BlockSize
           /\ k % BlockSize = 0
           /\ final <= BlockSize * Len(u.blocks)
        THEN DecodedBlock(u.blocks[(k \div BlockSize) + 1])
        ELSE Decode(HeaderAt(u, off))

\* the while test holds and the header fits: the body reads a header
ReadsHeader ==
    /\ pc = "loop"
    /\ Less(offset, Length(uint8Array))
    /\ ~(offset + BlockSize > Length(uint8Array))

\* the catch block, entered with error e when consecutiveErrors is ce
Catch(e, ce) ==
    IF IncludesUnexpectedEnd(e)
    THEN /\ pc' = "thrown"
         /\ error' = e
         /\ consecutiveErrors' = ce
         /\ UNCHANGED offset
    ELSE IF ce + 1 >= maxConsecutiveErrors
    THEN /\ pc' = "thrown"
         /\ error' = [msg |-> FailedToProcess, cause |-> e.msg, name |-> <<>>]
         /\ consecutiveErrors' = ce + 1
         /\ UNCHANGED offset
    ELSE /\ pc' = "loop"
         /\ consecutiveErrors' = ce + 1
         /\ offset' = CeilBlock(offset)
         /\ UNCHANGED error

\* (variant) the walk returns zip without looking at fileCount
LoopExitAlwaysReturns ==
    /\ pc = "loop"
    /\ tests' = 1 - tests
    /\ UNCHANGED pending
    /\ ~Less(offset, Length(uint8Array))
    /\ pc' = "returned"
    /\ UNCHANGED <<uint8Array, zip, offset, fileCount, consecutiveErrors,
                   error>>

\* the while test fails: the loop is left, and the walk returns zip if an
\* entry was counted
LoopExit ==
    /\ pc = "loop"
    /\ tests' = 1 - tests
    /\ UNCHANGED pending
    /\ ~Less(offset, Length(uint8Array))
    /\ IF fileCount = 0
       THEN pc' = "thrown" /\ error' = Error(NoValidFiles)
       ELSE pc' = "returned" /\ UNCHANGED error
    /\ UNCHANGED <<uint8Array, zip, offset, fileCount, consecutiveErrors>>

\* (variant) a header that does not fit ends the walk like the while test
TruncatedHeaderEndsWalk ==
    /\ pc = "loop"
    /\ tests' = 1 - tests
    /\ UNCHANGED pending
    /\ Less(offset, Length(uint8Array))
    /\ offset + BlockSize > Length(uint8Array)
    /\ IF fileCount = 0
       THEN pc' = "thrown" /\ error' = Error(NoValidFiles)
       ELSE pc' = "returned" /\ UNCHANGED error
    /\ UNCHANGED <<uint8Array, zip, offset, fileCount, consecutiveErrors>>

\* fewer than 512 bytes are left for a header
TruncatedHeader ==
    /\ pc = "loop"
    /\ tests' = 1 - tests
    /\ UNCHANGED pending
    /\ Less(offset, Length(uint8Array))
    /\ offset + BlockSize > Length(uint8Array)
    /\ Catch(Error(UnexpectedEndOfTar), consecutiveErrors)
    /\ UNCHANGED <<uint8Array, zip, fileCount>>

\* (variant) an empty block is stepped over and the walk goes on
EndOfArchiveSkipped ==
    /\ ReadsHeader
    /\ tests' = 1 - tests
    /\ UNCHANGED pending
    /\ Scan(uint8Array, offset).everyZero
    /\ offset' = offset + BlockSize
    /\ UNCHANGED <<uint8Array, zip, fileCount, consecutiveErrors, pc, error>>

\* the header is an empty block: the end of the archive
EndOfArchive ==
    /\ ReadsHeader
    /\ tests' = 1 - tests
    /\ UNCHANGED pending
    /\ Scan(uint8Array, offset).everyZero
    /\ IF fileCount = 0
       THEN Catch(Error(NoValidFiles), consecutiveErrors)
       ELSE /\ pc' = "returned"
            /\ UNCHANGED <<offset, consecutiveErrors, error>>
    /\ UNCHANGED <<uint8Array, zip, fileCount>>

\* (variant) an invalid header is stepped over with the content its size
\* field declares
InvalidHeaderSkipsContent ==
    /\ ReadsHeader
    /\ tests' = 1 - tests
    /\ UNCHANGED pending
    /\ LET h == Scan(uint8Array, offset)
       IN  ~h.everyZero /\ ~h.valid
    /\ IF consecutiveErrors + 1 >= maxConsecutiveErrors
       THEN Catch(Error(MultipleInvalid), consecutiveErrors + 1)
       ELSE /\ consecutiveErrors' = consecutiveErrors + 1
            /\ offset' = Plus(offset, Plus(BlockSize,
                   CeilBlock(Size(HeaderAt(uint8Array, offset)))))
            /\ UNCHANGED <<pc, error>>
    /\ UNCHANGED <<uint8Array, zip, fileCount>>

\* the header fails validateTarHeader
InvalidHeader ==
    /\ ReadsHeader
    /\ tests' = 1 - tests
    /\ UNCHANGED pending
    /\ LET h == Scan(uint8Array, offset)
       IN  ~h.everyZero /\ ~h.valid
    /\ IF consecutiveErrors + 1 >= maxConsecutiveErrors
       THEN Catch(Error(MultipleInvalid), consecutiveErrors + 1)
       ELSE /\ consecutiveErrors' = consecutiveErrors + 1
            /\ offset' = offset + BlockSize
            /\ UNCHANGED <<pc, error>>
    /\ UNCHANGED <<uint8Array, zip, fileCount>>

\* the header passed validateTarHeader: consecutiveErrors is reset
ValidHeader ==
    /\ ReadsHeader
    /\ LET h == Scan(uint8Array, offset)
       IN  ~h.everyZero /\ h.valid

\* filename.includes("PaxHeader")
IsPax(h) == includes(h.filename, PaxHeader)

\* offset += 512 + (Math.ceil(size / 512) * 512)
NextOffset(off, size) == Plus(off, Plus(BlockSize, CeilBlock(size)))

\* the sink's record of a call; at is the offset of the header the call was
\* made for (the sink is not given it)
FileCall(name, content, comment, at) ==
    [op |-> "file", name |-> name, content |-> content, comment |-> comment,
     at |-> at]

FolderCall(name, at) ==
    [op |-> "folder", name |-> name, content |-> <<>>, comment |-> "",
     at |-> at]

\* (variant) the sink call is made and the entry is not counted
DispatchUncounted(call, size) ==
    /\ Len(zip) < MaxCalls
    /\ zip' = Append(zip, call)
    /\ offset' = NextOffset(offset, size)
    /\ consecutiveErrors' = 0
    /\ UNCHANGED <<uint8Array, fileCount, pc, error>>

\* a sink call, fileCount++, and the move to the next entry
Dispatch(call, size) ==
    /\ Len(zip) < MaxCalls
    /\ zip' = Append(zip, call)
    /\ fileCount' = fileCount + 1
    /\ offset' = NextOffset(offset, size)
    /\ consecutiveErrors' = 0
    /\ UNCHANGED <<uint8Array, pc, error>>

\* (variant) an entry that makes no sink call leaves consecutiveErrors as
\* it was
SkipEntryKeepsCount(size) ==
    /\ offset' = NextOffset(offset, size)
    /\ UNCHANGED <<uint8Array, zip, fileCount, pc, error, consecutiveErrors>>

\* no sink call: only the move to the next entry
SkipEntry(size) ==
    /\ offset' = NextOffset(offset, size)
    /\ consecutiveErrors' = 0
    /\ UNCHANGED <<uint8Array, zip, fileCount, pc, error>>

\* (variant) a PaxHeader entry is skipped without its content
PaxEntryHeaderOnly ==
    /\ ValidHeader
    /\ tests' = 1 - tests
    /\ UNCHANGED pending
    /\ LET h == Scan(uint8Array, offset)
       IN  /\ IsPax(h)
           /\ SkipEntry(0)

\* a PaxHeader entry is skipped with its content
PaxEntry ==
    /\ ValidHeader
    /\ tests' = 1 - tests
    /\ UNCHANGED pending
    /\ LET h == Scan(uint8Array, offset)
       IN  /\ IsPax(h)
           /\ SkipEntry(h.size)

\* case '0', case '': a regular file
RegularFile ==
    /\ ValidHeader
    /\ tests' = 1 - tests
    /\ UNCHANGED pending
    /\ LET h == Scan(uint8Array, offset)
       IN  /\ ~IsPax(h)
           /\ h.fileType \in {<<TypeFile>>, <<>>}
           /\ IF Greater(h.size, 0)
              THEN IF offset + BlockSize + h.size > Length(uint8Array)
                   THEN /\ Catch([msg |-> UnexpectedEndOfFile, cause |-> "",
                                  name |-> h.filename], 0)
                        /\ UNCHANGED <<uint8Array, zip, fileCount>>
                   ELSE Dispatch(FileCall(h.filename,
                                     Slice(uint8Array, offset + BlockSize,
                                           offset + BlockSize + h.size),
                                     "", offset),
                                 h.size)
              ELSE SkipEntry(h.size)

\* case '2': a symbolic link, stored as a file holding the link target
SymbolicLink ==
    /\ ValidHeader
    /\ tests' = 1 - tests
    /\ UNCHANGED pending
    /\ LET h == Scan(uint8Array, offset)
       IN  /\ ~IsPax(h)
           /\ h.fileType = <<TypeLink>>
           /\ Dispatch(FileCall(h.filename, h.linkname, "Symbolic Link",
                                offset),
                       h.size)

\* case '5': a directory
Directory ==
    /\ ValidHeader
    /\ tests' = 1 - tests
    /\ UNCHANGED pending
    /\ LET h == Scan(uint8Array, offset)
       IN  /\ ~IsPax(h)
           /\ h.fileType = <<TypeDir>>
           /\ Dispatch(FolderCall(h.filename, offset), h.size)

\* no case of the switch matches
OtherType ==
    /\ ValidHeader
    /\ tests' = 1 - tests
    /\ UNCHANGED pending
    /\ LET h == Scan(uint8Array, offset)
       IN  /\ ~IsPax(h)
           /\ h.fileType \notin {<<TypeFile>>, <<>>, <<TypeLink>>, <<TypeDir>>}
           /\ SkipEntry(h.size)

Next ==
    \/ LoopExit
    \/ TruncatedHeader
    \/ EndOfArchive
    \/ InvalidHeader
    \/ PaxEntry
    \/ RegularFile
    \/ SymbolicLink
    \/ Directory
    \/ OtherType

Spec == Init /\ [][Next]_vars

\* the loop runs on while it can
FairSpec == Spec /\ WF_vars(Next)

(***************************************************************************)
(* Properties.                                                             *)
(***************************************************************************)
(***************************************************************************)
(* The walker with a sink whose calls can throw.                           *)
(***************************************************************************)
\* an error of the sink; its message does not hold "Unexpected end"
SinkError == Error("sink error")

\* zip.file or zip.folder throws: the entry is not stored, and the catch
\* block is entered with consecutiveErrors just reset by the valid header
SinkThrows ==
    /\ ValidHeader
    /\ tests' = 1 - tests
    /\ UNCHANGED pending
    /\ LET h == Scan(uint8Array, offset)
       IN  /\ ~IsPax(h)
           /\ \/ /\ h.fileType \in {<<TypeFile>>, <<>>}
                 /\ Greater(h.size, 0)
                 /\ ~(offset + BlockSize + h.size > Length(uint8Array))
              \/ h.fileType \in {<<TypeLink>>, <<TypeDir>>}
    /\ Catch(SinkError, 0)
    /\ UNCHANGED <<uint8Array, zip, fileCount>>

SinkNext == Next \/ SinkThrows

SinkSpec == Init /\ [][SinkNext]_vars /\ WF_vars(SinkNext)

(***************************************************************************)
(* Properties.                                                             *)
(***************************************************************************)

(***************************************************************************)
(* convertToZip: the file is read, inflated when it is a gzip file, walked *)
(* into a new JSZip, and the zip is generated and downloaded.  pc says     *)
(* where the call is: "read" (await file.arrayBuffer()), "loop",           *)
(* "returned" and "thrown" (the walk and its end), "generating" (await     *)
(* zip.generateAsync()), "done", and "failed" (the catch block has shown   *)
(* the error).  The change and drop handlers call convertToZip without     *)
(* waiting for a call in flight, so two calls can take turns at their      *)
(* awaits.                                                                 *)
(***************************************************************************)
GzipMagic == <<31, 139>>

\* a gzip file: what pako.inflate makes of it
Gzip(a) == [gzip |-> [ok |-> TRUE, data |-> a]]
CorruptGzip ==
    [gzip |-> [ok |-> FALSE, data |-> [blocks |-> <<>>, tail |-> 0]]]

IsGzipFile(u) == "gzip" \in DOMAIN u

\* the first two bytes of the file (fewer if the file is shorter)
FirstBytes(u) ==
    IF IsGzipFile(u) THEN GzipMagic ELSE SeqSlice(Bytes(u), 0, 2)

\* uint8Array[0] === 0x1f && uint8Array[1] === 0x8b
isGzipped(u) ==
    LET b == FirstBytes(u)
    IN  Len(b) >= 2 /\ b[1] = 31 /\ b[2] = 139

DecompressFailed ==
    "Failed to decompress gzip file. The file might be corrupted."

\* the sink's record of zip.generateAsync
GenerateCall ==
    [op |-> "generateAsync", name |-> <<>>, content |-> <<>>, comment |-> "",
     at |-> 0]

Link0 == Header(1, 3, 1)

ConvertBlocks == CoreBlocks \cup {PaxDir0, Other0, Link0}

ConvertArchives ==
    { [blocks |-> bs, tail |-> 0] :
        bs \in SeqsUpTo(ConvertBlocks, MaxBlocks - 2) }
    \cup
    { [blocks |-> bs, tail |-> 1] : bs \in {<<>>, <<Dir0>>} }

ConvertFiles ==
    ConvertArchives \cup { Gzip(a) : a \in ConvertArchives } \cup {CorruptGzip}

\* the archives of two calls in flight together
PairArchives ==
    { [blocks |-> <<Dir0>>, tail |-> 0],
      [blocks |-> <<File1, Data, Dir0>>, tail |-> 0],
      [blocks |-> <<Bad, Bad, Bad>>, tail |-> 0],
      [blocks |-> <<Dir0>>, tail |-> 1] }

PairFiles ==
    PairArchives
    \cup {Gzip([blocks |-> <<File1, Data, Dir0>>, tail |-> 0]), CorruptGzip}

\* a call that has just been made for file f
Called(f) == Locals(f, <<>>, 0, 0, 0, "read", NoError, 0)

Running ==
    Locals(uint8Array, zip, offset, fileCount, consecutiveErrors, pc, error,
           tests)

ConvertInit ==
    /\ uint8Array \in ConvertFiles \cup PairFiles
    /\ zip = <<>>
    /\ offset = 0
    /\ fileCount = 0
    /\ consecutiveErrors = 0
    /\ pc = "read"
    /\ error = NoError
    /\ tests = 0
    /\ \/ pending = NoConversion
       \/ /\ uint8Array \in PairFiles
          /\ pending \in { Called(f) : f \in PairFiles }

\* the file is no gzip file: it is walked as it is
PlainTar ==
    /\ pc = "read"
    /\ ~isGzipped(uint8Array)
    /\ pc' = "loop"
    /\ UNCHANGED <<uint8Array, zip, offset, fileCount, consecutiveErrors,
                   error, tests, pending>>

\* uint8Array = pako.inflate(uint8Array)
Inflate ==
    /\ pc = "read"
    /\ isGzipped(uint8Array)
    /\ uint8Array.gzip.ok
    /\ uint8Array' = uint8Array.gzip.data
    /\ pc' = "loop"
    /\ UNCHANGED <<zip, offset, fileCount, consecutiveErrors, error, tests,
                   pending>>

\* (variant) a failed inflate is shown as an error of the tar walk
InflateFailsAsWalkError ==
    /\ pc = "read"
    /\ isGzipped(uint8Array)
    /\ ~uint8Array.gzip.ok
    /\ pc' = "failed"
    /\ error' = Error(FailedToProcess)
    /\ UNCHANGED <<uint8Array, zip, offset, fileCount, consecutiveErrors,
                   tests, pending>>

\* pako.inflate throws: the inner catch throws the decompression error and
\* the outer catch shows it
InflateFails ==
    /\ pc = "read"
    /\ isGzipped(uint8Array)
    /\ ~uint8Array.gzip.ok
    /\ pc' = "failed"
    /\ error' = Error(DecompressFailed)
    /\ UNCHANGED <<uint8Array, zip, offset, fileCount, consecutiveErrors,
                   tests, pending>>

\* (variant) the walk has ended, by a return or by a throw
GenerateAfterAnyWalk ==
    /\ pc \in {"returned", "thrown"}
    /\ zip' = Append(zip, GenerateCall)
    /\ pc' = "generating"
    /\ UNCHANGED <<uint8Array, offset, fileCount, consecutiveErrors, error,
                   tests, pending>>

\* the walk has returned: zip.generateAsync is called
Generate ==
    /\ pc = "returned"
    /\ zip' = Append(zip, GenerateCall)
    /\ pc' = "generating"
    /\ UNCHANGED <<uint8Array, offset, fileCount, consecutiveErrors, error,
                   tests, pending>>

\* the blob is there: the download link is made and clicked
Download ==
    /\ pc = "generating"
    /\ pc' = "done"
    /\ UNCHANGED <<uint8Array, zip, offset, fileCount, consecutiveErrors,
                   error, tests, pending>>

\* the walk has thrown: the catch block shows error.message
ShowError ==
    /\ pc = "thrown"
    /\ pc' = "failed"
    /\ UNCHANGED <<uint8Array, zip, offset, fileCount, consecutiveErrors,
                   error, tests, pending>>

\* (variant) zip is one object that every call uses
SwitchSharingZip ==
    /\ pending # NoConversion
    /\ pc # "loop"
    /\ pending.pc \notin {"done", "failed"}
    /\ uint8Array' = pending.uint8Array
    /\ zip' = zip
    /\ offset' = pending.offset
    /\ fileCount' = pending.fileCount
    /\ consecutiveErrors' = pending.consecutiveErrors
    /\ pc' = pending.pc
    /\ error' = pending.error
    /\ tests' = pending.tests
    /\ pending' = Running

\* the call that runs waits at an await (or has ended) and the other call
\* goes on; the walk has no await in it, so a call is never left inside it
Switch ==
    /\ pending # NoConversion
    /\ pc # "loop"
    /\ pending.pc \notin {"done", "failed"}
    /\ uint8Array' = pending.uint8Array
    /\ zip' = pending.zip
    /\ offset' = pending.offset
    /\ fileCount' = pending.fileCount
    /\ consecutiveErrors' = pending.consecutiveErrors
    /\ pc' = pending.pc
    /\ error' = pending.error
    /\ tests' = pending.tests
    /\ pending' = Running

\* a step of the call that runs
ConvertStep ==
    \/ PlainTar
    \/ Inflate
    \/ InflateFails
    \/ Next
    \/ Generate
    \/ Download
    \/ ShowError

ConvertNext == ConvertStep \/ Switch

ConvertSpec ==
    /\ ConvertInit
    /\ [][ConvertNext]_vars
    /\ WF_vars(ConvertStep)
    /\ WF_vars(Switch)

\* what the walker reads from block k of the input, as a header
Block(k) == DecodedBlock(uint8Array.blocks[k])

NumBlocks == Len(uint8Array.blocks)

\* block k is not empty and fails validateTarHeader
Corrupted(k) == k <= NumBlocks /\ ~Block(k).everyZero /\ ~Block(k).valid

\* block k is a well-formed entry that the switch dispatches
Dispatchable(k) ==
    /\ k <= NumBlocks
    /\ Block(k).valid
    /\ ~IsPax(Block(k))
    /\ Block(k).size # NaN
    /\ \/ Block(k).fileType = <<TypeFile>> /\ Block(k).size > 0
       \/ Block(k).fileType \in {<<TypeLink>>, <<TypeDir>>} /\ Block(k).size = 0

\* the call the switch makes for the entry whose header is block k
CallFor(k) ==
    LET h == Block(k)
        at == (k - 1) * BlockSize
    IN  IF h.fileType = <<TypeDir>> THEN FolderCall(h.filename, at)
        ELSE IF h.fileType = <<TypeLink>>
        THEN FileCall(h.filename, h.linkname, "Symbolic Link", at)
        ELSE FileCall(h.filename,
                      LET bytes == Bytes(uint8Array)
                      IN  [j \in 1..h.size |-> bytes[at + BlockSize + j]],
                      "", at)

\* the input is two corrupted blocks, one dispatchable entry with its
\* content blocks, and then nothing but empty blocks
TwoCorruptedThenEntry ==
    /\ Corrupted(1) /\ Corrupted(2) /\ Dispatchable(3)
    /\ uint8Array.tail = 0
    /\ LET content == CeilBlock(Block(3).size) \div BlockSize
       IN  /\ NumBlocks >= 3 + content
           /\ \A k \in (3 + content + 1)..NumBlocks : Block(k).everyZero

\* the input starts with three corrupted blocks
ThreeCorrupted == Corrupted(1) /\ Corrupted(2) /\ Corrupted(3)

CorruptArchive ==
    [msg |-> FailedToProcess, cause |-> MultipleInvalid, name |-> <<>>]

\* C1: recovery law.  An archive of two corrupted blocks followed by one
\* dispatchable entry ends with exactly that entry dispatched and no error;
\* an archive that starts with three corrupted blocks ends in the corrupt-
\* archive error with no sink call; and at any point of a walk the third
\* corrupted header in a row ends the walk in that error, with no sink call
\* then or afterwards.
C1_RecoveryLaw ==
    /\ [](TwoCorruptedThenEntry =>
            <>(/\ TwoCorruptedThenEntry
               /\ pc = "returned" /\ error = NoError
               /\ zip = <<CallFor(3)>>))
    /\ [](ThreeCorrupted =>
            <>(pc = "thrown" /\ error = CorruptArchive /\ zip = <<>>))
    /\ [][ (/\ pc = "loop"
            /\ ReadsHeader
            /\ consecutiveErrors = maxConsecutiveErrors - 1
            /\ ~Scan(uint8Array, offset).everyZero
            /\ ~Scan(uint8Array, offset).valid)
           => (pc' = "thrown" /\ error' = CorruptArchive /\ zip' = zip) ]_vars
    /\ [][ pc = "thrown" => UNCHANGED vars ]_vars

\* C1 witness: the walk of two corrupted blocks and an entry has returned
\* with the entry dispatched
C1_Witness ==
    /\ TwoCorruptedThenEntry
    /\ pc = "returned"
    /\ zip = <<CallFor(3)>>

\* C2: the walk terminates: every walk leaves the loop, by returning or by
\* throwing.  (A walk the model stops at MaxCalls sink calls counts as
\* ended, so that only a walk that really runs on for ever refutes this.)
C2_Terminates == <>(pc # "loop" \/ Len(zip) >= MaxCalls)

\* what the iteration at offset reads from its header
Here == Scan(uint8Array, offset)

\* the bytes of the buffer that follow offset
Remainder == Length(uint8Array) - offset

TruncatedArchive == Error(UnexpectedEndOfTar)

\* C3 as claimed: every input shorter than 512 bytes, the empty one too,
\* ends in the truncation error with no sink call.
C3_ShortInputAsClaimed ==
    (Length(uint8Array) < BlockSize /\ pc # "loop")
        => (pc = "thrown" /\ error = TruncatedArchive /\ zip = <<>>)

\* C3: an input of 1 to 511 bytes ends at its first while test in the
\* truncation error, and the empty input in "No valid files found in the
\* archive"; neither makes a sink call.
C3_ShortInput ==
    Length(uint8Array) < BlockSize =>
        /\ zip = <<>>
        /\ pc = "loop" => tests = 0
        /\ pc # "loop" =>
              /\ pc = "thrown"
              /\ error = IF Length(uint8Array) = 0 THEN Error(NoValidFiles)
                         ELSE TruncatedArchive

\* C3 witness: the walk of a 511-byte input has thrown the truncation error
C3_Witness ==
    /\ Length(uint8Array) = BlockSize - 1
    /\ pc = "thrown"
    /\ error = TruncatedArchive

\* C4 as claimed: at a while test with 0 to 511 bytes left past offset the
\* walk throws the truncation error.
C4_ShortRemainderAsClaimed ==
    [][ (pc = "loop" /\ offset # NaN /\ Remainder >= 0 /\ Remainder < BlockSize)
        => (pc' = "thrown" /\ error' = TruncatedArchive) ]_vars

\* C4: at a while test with 1 to 511 bytes left past offset the walk throws
\* the truncation error; with exactly 0 bytes left it ends without one: it
\* returns if an entry was counted and throws "No valid files found in the
\* archive" otherwise.  Neither makes a sink call.
C4_ShortRemainder ==
    [][ (pc = "loop" /\ offset # NaN) =>
          /\ (Remainder >= 1 /\ Remainder < BlockSize) =>
                (pc' = "thrown" /\ error' = TruncatedArchive /\ zip' = zip)
          /\ Remainder = 0 =>
                /\ zip' = zip
                /\ IF fileCount = 0
                   THEN pc' = "thrown" /\ error' = Error(NoValidFiles)
                   ELSE pc' = "returned" /\ error' = NoError ]_vars

\* C4 witness: past the first entry, the walk has thrown the truncation
\* error with part of a block left
C4_Witness ==
    /\ pc = "thrown"
    /\ error = TruncatedArchive
    /\ offset > 0
    /\ Remainder >= 1 /\ Remainder < BlockSize

\* C5: a validated entry that is no PaxHeader, of any type, whose content
\* would end past the end of the buffer makes the walk throw the truncation
\* error naming the entry, with no sink call.
C5_ContentPastEnd ==
    [][ (/\ ValidHeader
         /\ ~IsPax(Here)
         /\ Here.size # NaN /\ Here.size > 0
         /\ offset + BlockSize + Here.size > Length(uint8Array))
        => (/\ pc' = "thrown"
            /\ error' = [msg |-> UnexpectedEndOfFile, cause |-> "",
                         name |-> Here.filename]
            /\ zip' = zip) ]_vars

\* C6: a validated header whose size field holds no octal number is handled
\* like an invalid header: no sink call, one more consecutive error, and the
\* walk goes on 512 bytes further (or gives up at the third error in a row).
C6_GarbageSizeAsInvalid ==
    [][ (ValidHeader /\ Here.size = NaN)
        => (/\ zip' = zip
            /\ IF consecutiveErrors + 1 >= maxConsecutiveErrors
               THEN pc' = "thrown"
               ELSE /\ pc' = "loop"
                    /\ consecutiveErrors' = consecutiveErrors + 1
                    /\ offset' = offset + BlockSize) ]_vars

\* the header read at offset is an empty block
AtEndBlock == ReadsHeader /\ Here.everyZero

EmptyArchive ==
    [msg |-> FailedToProcess, cause |-> NoValidFiles, name |-> <<>>]

\* C7: an empty block ends the traversal.  With no entry counted the walk
\* throws the empty-archive error (after reading the same block again, at
\* most until the third error in a row); with an entry counted it returns;
\* no sink call is made from the empty block on.
C7_EndBlock ==
    /\ [][ AtEndBlock =>
            /\ zip' = zip
            /\ fileCount' = fileCount
            /\ IF fileCount = 0
               THEN \/ pc' = "thrown" /\ error' = EmptyArchive
                    \/ /\ pc' = "loop"
                       /\ offset' = offset
                       /\ consecutiveErrors' = consecutiveErrors + 1
               ELSE pc' = "returned" /\ error' = NoError ]_vars
    /\ []((AtEndBlock /\ fileCount = 0)
            => <>(pc = "thrown" /\ error = EmptyArchive))
    /\ []((AtEndBlock /\ fileCount > 0) => <>(pc = "returned"))

\* C7 witness: an empty first block, a dispatchable entry behind it, and
\* the walk has thrown the empty-archive error with no sink call
C7_Witness ==
    /\ NumBlocks >= 2
    /\ Block(1).everyZero
    /\ Dispatchable(2)
    /\ offset = 0
    /\ pc = "thrown"
    /\ error = EmptyArchive
    /\ zip = <<>>

\* ceil(s / 512)
CeilDiv(s) == (s + BlockSize - 1) \div BlockSize

\* C8: padding law.  After a validated entry of decoded size s the next
\* while test is at the header's offset plus 512 + 512 * ceil(s / 512): the
\* delta is 512 for s = 0, 1024 for s = 1, 511 and 512, and 1536 for s = 513.
C8_PaddingLaw ==
    [][ (ValidHeader /\ Here.size # NaN /\ pc' = "loop") =>
          /\ offset' = offset + 512 + 512 * CeilDiv(Here.size)
          /\ Here.size = 0 => offset' - offset = 512
          /\ Here.size \in {1, 511, 512} => offset' - offset = 1024
          /\ Here.size = 513 => offset' - offset = 1536 ]_vars

\* C8 witness: a file of 513 bytes was dispatched at offset 0 and the next
\* header is read at offset 1536
C8_Witness ==
    /\ NumBlocks >= 4
    /\ Block(1).valid /\ Block(1).size = 513
    /\ Len(zip) = 1 /\ zip[1].at = 0
    /\ offset = 1536
    /\ ReadsHeader

\* the content the file call at offset is given
ContentHere ==
    Slice(uint8Array, offset + BlockSize, offset + BlockSize + Here.size)

\* the size bytes of the buffer that follow the header at offset
BytesAfterHeader ==
    LET bytes == Bytes(uint8Array)
    IN  [j \in 1..Here.size |-> bytes[offset + BlockSize + j]]

\* C9: a validated header with type byte 0x00 and size > 0 is a regular
\* file: one file-write call with its name and content, and one more entry
\* counted.
C9_NulTypeIsRegularFile ==
    [][ (/\ ValidHeader
         /\ ~IsPax(Here)
         /\ Here.fileType = <<TypeNul>>
         /\ Here.size # NaN /\ Here.size > 0
         /\ offset + BlockSize + Here.size <= Length(uint8Array))
        => (/\ zip' = Append(zip, FileCall(Here.filename, ContentHere, "",
                                           offset))
            /\ fileCount' = fileCount + 1) ]_vars

NotDispatched == zip' = zip /\ fileCount' = fileCount

\* the dispatch by type of the entry at offset; fits says whether a regular
\* file's content must lie inside the buffer for the call to be made
DispatchByType(fits) ==
    /\ (Here.fileType = <<TypeFile>> /\ Here.size # NaN /\ Here.size > 0
        /\ fits) =>
          /\ zip' = Append(zip, FileCall(Here.filename, ContentHere, "",
                                         offset))
          /\ fileCount' = fileCount + 1
    /\ (Here.fileType = <<TypeFile>> /\ Here.size = 0) =>
          NotDispatched /\ pc' = "loop"
    /\ Here.fileType = <<TypeLink>> =>
          /\ zip' = Append(zip, FileCall(Here.filename, Here.linkname,
                                         "Symbolic Link", offset))
          /\ fileCount' = fileCount + 1
    /\ Here.fileType = <<TypeDir>> =>
          /\ zip' = Append(zip, FolderCall(Here.filename, offset))
          /\ fileCount' = fileCount + 1
    /\ Here.fileType \notin {<<TypeFile>>, <<TypeLink>>, <<TypeDir>>} =>
          NotDispatched /\ pc' = "loop"

\* C10 as claimed: every type '0' entry with size > 0 makes its file-write
\* call.
C10_DispatchAsClaimed ==
    [][ (ValidHeader /\ ~IsPax(Here)) => DispatchByType(TRUE) ]_vars

ContentFits == offset + BlockSize + Here.size <= Length(uint8Array)

\* C10: dispatch by type of a validated entry that is no PaxHeader.  Type
\* '0' with size > 0 and its content inside the buffer: one file-write call
\* (name, the size bytes that follow the header) and counted; with its
\* content past the end of the buffer: the truncation error and no call.
\* Type '0' with size 0: no call, not counted.  Type '2': one file-write
\* call holding the link target, marked "Symbolic Link", counted.  Type '5':
\* one folder call, counted.  Any other type: no call, no error, not
\* counted.
C10_DispatchByType ==
    [][ (ValidHeader /\ ~IsPax(Here)) =>
          /\ DispatchByType(ContentFits)
          /\ (Here.fileType = <<TypeFile>> /\ Here.size # NaN
              /\ Here.size > 0 /\ ~ContentFits) =>
                /\ NotDispatched
                /\ pc' = "thrown"
                /\ error' = [msg |-> UnexpectedEndOfFile, cause |-> "",
                             name |-> Here.filename]
          /\ (Here.fileType = <<TypeFile>> /\ Here.size # NaN
              /\ Here.size > 0 /\ ContentFits /\ offset >= 0) =>
                ContentHere = BytesAfterHeader ]_vars

\* C10 witness: a symbolic link was dispatched as a file holding its target
C10_Witness ==
    /\ Len(zip) = 1
    /\ zip[1] = FileCall(NameA, <<116>>, "Symbolic Link", 0)
    /\ fileCount = 1

\* the block that follows the content of the entry whose header is block 1
AfterFirst == 2 + CeilDiv(Block(1).size)

\* the input is one PaxHeader entry with its content blocks, one
\* dispatchable entry with its content blocks, and then nothing but empty
\* blocks
PaxThenEntry ==
    /\ NumBlocks >= 1
    /\ uint8Array.tail = 0
    /\ Block(1).valid /\ IsPax(Block(1))
    /\ Block(1).size # NaN /\ Block(1).size >= 0
    /\ Dispatchable(AfterFirst)
    /\ LET last == AfterFirst + CeilDiv(Block(AfterFirst).size)
       IN  /\ NumBlocks >= last
           /\ \A k \in (last + 1)..NumBlocks : Block(k).everyZero

\* C11: a validated entry with PaxHeader in its name makes no sink call
\* whatever its type, is not counted, and moves offset by 512 plus its size
\* rounded up to a multiple of 512; an archive of one such entry and one
\* dispatchable entry behind its content ends with exactly that entry
\* dispatched.
C11_PaxSkipped ==
    /\ [][ (ValidHeader /\ IsPax(Here)) =>
            /\ zip' = zip
            /\ fileCount' = fileCount
            /\ pc' = "loop"
            /\ Here.size # NaN =>
                  offset' = offset + 512 + 512 * CeilDiv(Here.size) ]_vars
    /\ [](PaxThenEntry =>
            <>(/\ PaxThenEntry
               /\ pc = "returned" /\ error = NoError
               /\ zip = <<CallFor(AfterFirst)>>))

\* C11 witness: a PaxHeader entry of directory type with a content block
\* was skipped, and the walk has returned with only the entry behind it
\* dispatched
C11_Witness ==
    /\ PaxThenEntry
    /\ Block(1).fileType = <<TypeDir>>
    /\ Block(1).size > 0
    /\ pc = "returned"
    /\ zip = <<CallFor(AfterFirst)>>

\* block k is a validated entry for which no sink call is made: a PaxHeader
\* entry, an empty regular file, or an entry of a type the switch skips
Skipped(k) ==
    /\ Block(k).valid
    /\ Block(k).size # NaN /\ Block(k).size >= 0
    /\ \/ IsPax(Block(k))
       \/ Block(k).fileType = <<TypeFile>> /\ Block(k).size = 0
       \/ Block(k).fileType \notin {<<TypeFile>>, <<TypeLink>>, <<TypeDir>>}

\* from block k on, every header of the archive up to its end or its first
\* empty block is one of a skipped entry
RECURSIVE SkippedFrom(_)
SkippedFrom(k) ==
    IF k > NumBlocks THEN TRUE
    ELSE IF Block(k).everyZero THEN TRUE
    ELSE Skipped(k) /\ SkippedFrom(k + 1 + CeilDiv(Block(k).size))

\* an archive of whole blocks whose entries are all skipped ones
OnlySkipped == uint8Array.tail = 0 /\ SkippedFrom(1)

\* C12: a walk returns only after a sink call: at a return at least one call
\* was made, and fileCount is the number of calls made.  An archive whose
\* entries are all PaxHeader entries, empty regular files and entries of
\* skipped types ends in the "No valid files found in the archive" error
\* with no sink call, with an empty block at its end or without.
C12_SuccessNeedsSinkCall ==
    /\ [](pc = "returned" => Len(zip) >= 1)
    /\ [](fileCount = Len(zip))
    /\ [](OnlySkipped =>
            <>(/\ pc = "thrown"
               /\ zip = <<>>
               /\ error \in {Error(NoValidFiles), EmptyArchive}))

\* C12 witness: an archive of two skipped entries and no empty block has
\* ended in the "No valid files found in the archive" error
C12_Witness ==
    /\ OnlySkipped
    /\ NumBlocks >= 2
    /\ Skipped(1) /\ Block(1).fileType = <<TypeFile>>
    /\ Skipped(2)
    /\ offset >= NumBlocks * BlockSize
    /\ pc = "thrown"
    /\ error = Error(NoValidFiles)

\* the header read at offset fails validateTarHeader
AtInvalidHeader == ReadsHeader /\ ~Here.everyZero /\ ~Here.valid

\* C15: a header that fails validateTarHeader while fewer than three
\* invalid headers in a row were counted moves offset by exactly 512 bytes,
\* whatever its size field holds, makes no sink call and leaves fileCount
\* unchanged.
C15_InvalidHeaderStep ==
    [][ (AtInvalidHeader /\ consecutiveErrors + 1 < maxConsecutiveErrors) =>
          /\ offset' = offset + 512
          /\ zip' = zip
          /\ fileCount' = fileCount
          /\ consecutiveErrors' = consecutiveErrors + 1
          /\ pc' = "loop" ]_vars

\* C15 witness: a first block with a wrong checksum, whose size field says
\* 513 bytes, was stepped over, and the walk is at offset 512
C15_Witness ==
    /\ NumBlocks >= 1
    /\ uint8Array.blocks[1] = Bad
    /\ Size(BadBytes) = 513
    /\ offset = 512
    /\ consecutiveErrors = 1
    /\ pc = "loop"
    /\ zip = <<>> /\ fileCount = 0

\* the header the walk reads at offset o fails validateTarHeader
InvalidAt(o) ==
    LET h == Scan(uint8Array, o)
    IN  ~h.everyZero /\ ~h.valid

\* C16: every header that passes validateTarHeader puts consecutiveErrors
\* back to 0, whatever the entry is; at every while test the counter is at
\* most 2; and the corrupt-archive error is thrown only at the third of
\* three invalid headers read one after the other, however many invalid
\* blocks the archive holds.
C16_CounterReset ==
    /\ [][ ValidHeader => consecutiveErrors' = 0 ]_vars
    /\ [](pc = "loop" => consecutiveErrors <= maxConsecutiveErrors - 1)
    /\ [](error.cause = MultipleInvalid =>
            /\ pc = "thrown"
            /\ InvalidAt(offset)
            /\ InvalidAt(offset - BlockSize)
            /\ InvalidAt(offset - 2 * BlockSize))

\* C16 witness: an archive with three invalid blocks, a PaxHeader entry
\* between the second and the third, has ended without the corrupt-archive
\* error: the entry has reset the counter, and the walk found no file
C16_Witness ==
    /\ uint8Array.blocks = <<Bad, Bad, PaxDir0, Bad>>
    /\ pc = "thrown"
    /\ error = Error(NoValidFiles)
    /\ zip = <<>>
    /\ consecutiveErrors = 1

\* C17: wherever the walk reads a header, offset is a multiple of 512 that
\* is not negative, and the 512 bytes from offset on lie inside the buffer.
C17_HeaderInsideBuffer ==
    ReadsHeader =>
        /\ offset >= 0
        /\ offset % BlockSize = 0
        /\ offset + BlockSize <= Length(uint8Array)

\* C18: the sink calls of a walk are made in archive order and at most once
\* for a header: the header offsets of the calls grow strictly from each
\* call to the next.
C18_ArchiveOrder ==
    \A i \in 1..Len(zip) : \A j \in 1..Len(zip) :
        i < j => zip[i].at < zip[j].at

\* the header at offset is one of an entry with a size that is a number not
\* below 0, for which the switch makes a sink call
AtDispatch ==
    /\ ValidHeader
    /\ ~IsPax(Here)
    /\ Here.size # NaN /\ Here.size >= 0
    /\ \/ Here.fileType = <<TypeFile>> /\ Here.size > 0 /\ ContentFits
       \/ Here.fileType \in {<<TypeLink>>, <<TypeDir>>}

\* C19: a sink call that throws does not make the walk try the same header
\* again without end: from a header whose entry is dispatched the walk
\* comes to a throw, to a return, or to another offset.  (A walk the model
\* stops at MaxCalls sink calls counts as having moved on.)
C19_BoundedRetry ==
    \A k \in 0..(MaxBlocks - 1) :
        []((AtDispatch /\ offset = k * BlockSize)
            => <>(\/ pc # "loop"
                  \/ offset # k * BlockSize
                  \/ Len(zip) >= MaxCalls))

\* zip.generateAsync was not called on the sink with call log z
NoGenerate(z) == \A i \in 1..Len(z) : z[i].op # "generateAsync"

\* the step is one of the call that runs, not a turn to the other call
OwnStep == pending' = pending

\* C13: zip.generateAsync is called only after the walk has returned
\* without error.  After an error of the inflate or of the walk it is never
\* called, nothing is generated or downloaded, and the error is what the
\* call shows, also when sink calls were made before the error.
C13_FinalizeAfterWalk ==
    /\ [][ (OwnStep /\ NoGenerate(zip) /\ ~NoGenerate(zip')) =>
            /\ pc = "returned"
            /\ error = NoError
            /\ zip' = Append(zip, GenerateCall) ]_vars
    /\ [](error # NoError =>
            (NoGenerate(zip) /\ pc \in {"thrown", "failed"}))
    /\ [](pc \in {"generating", "done"} =>
            (error = NoError /\ ~NoGenerate(zip)))
    /\ [][ (OwnStep /\ pc = "thrown") =>
            (pc' = "failed" /\ error' = error /\ zip' = zip) ]_vars
    /\ [](pc = "thrown" => <>(pc = "failed"))

\* C13 witness: a directory was stored, the walk then threw the truncation
\* error, and the call has shown it without generating the zip
C13_Witness ==
    /\ pc = "failed"
    /\ error = TruncatedArchive
    /\ NumBlocks >= 1
    /\ zip = <<CallFor(1)>>
    /\ Block(1).fileType = <<TypeDir>>

\* C14: pako.inflate is called exactly for a file whose first two bytes
\* are 0x1f 0x8b, and the walk then starts on the inflated bytes; a file
\* with other first bytes is walked as it is.  When the inflate fails the
\* call ends with the decompression error: the walk is never run and no
\* error of the walk is shown.
C14_GzipPath ==
    /\ [][ (OwnStep /\ pc = "read") =>
            IF FirstBytes(uint8Array) = GzipMagic
            THEN IF uint8Array.gzip.ok
                 THEN /\ uint8Array' = uint8Array.gzip.data
                      /\ pc' = "loop"
                      /\ offset' = 0 /\ tests' = 0 /\ zip' = <<>>
                 ELSE /\ pc' = "failed"
                      /\ error' = Error(DecompressFailed)
                      /\ uint8Array' = uint8Array
                      /\ tests' = 0 /\ zip' = <<>>
            ELSE /\ uint8Array' = uint8Array
                 /\ pc' = "loop"
                 /\ offset' = 0 /\ tests' = 0 /\ zip' = <<>> ]_vars
    /\ [](IsGzipFile(uint8Array) => pc \in {"read", "failed"})
    /\ []((IsGzipFile(uint8Array) /\ pc = "failed") =>
            /\ error = Error(DecompressFailed)
            /\ tests = 0
            /\ zip = <<>>)
    /\ [](error = Error(DecompressFailed) => IsGzipFile(uint8Array))

\* C14 witness: a gzip file that does not inflate has ended in the
\* decompression error
C14_Witness ==
    /\ uint8Array = CorruptGzip
    /\ pc = "failed"
    /\ error = Error(DecompressFailed)

\* from block k on, the archive is dispatchable entries with their content,
\* up to its last block
RECURSIVE EntriesFrom(_)
EntriesFrom(k) ==
    IF k > NumBlocks THEN TRUE
    ELSE /\ Dispatchable(k)
         /\ k + CeilDiv(Block(k).size) <= NumBlocks
         /\ EntriesFrom(k + 1 + CeilDiv(Block(k).size))

\* the calls for the entries from block k on
RECURSIVE CallsFrom(_)
CallsFrom(k) ==
    IF k > NumBlocks THEN <<>>
    ELSE <<CallFor(k)>> \o CallsFrom(k + 1 + CeilDiv(Block(k).size))

\* what the call that runs has come to is what a call alone comes to for
\* its file: a gzip file that does not inflate ends in the decompression
\* error; an archive of dispatchable entries ends with the calls for them
\* and the zip generated, or, if part of a block follows them, with those
\* calls and the truncation error; an archive that starts with three
\* corrupted blocks ends in the corrupt-archive error.
OutcomeAsAlone ==
    IF IsGzipFile(uint8Array)
    THEN pc = "failed" /\ error = Error(DecompressFailed) /\ zip = <<>>
    ELSE IF NumBlocks >= 1 /\ EntriesFrom(1)
    THEN IF uint8Array.tail = 0
         THEN /\ pc = "done" /\ error = NoError
              /\ zip = CallsFrom(1) \o <<GenerateCall>>
         ELSE /\ pc = "failed" /\ error = TruncatedArchive
              /\ zip = CallsFrom(1)
    ELSE IF ThreeCorrupted
    THEN pc = "failed" /\ error = CorruptArchive /\ zip = <<>>
    ELSE TRUE

\* C20: two calls in flight share no walker state and no sink: a step of
\* one call leaves the locals of the other as they are, a turn at an await
\* exchanges the two sets of locals whole, and every call ends as a call
\* alone ends for its file, whatever the turns taken.
C20_NoSharedState ==
    /\ [][ \/ pending' = pending
           \/ pending' = Running /\ Running' = pending ]_vars
    /\ [](pc \in {"done", "failed"} => OutcomeAsAlone)

\* C20 witness: two calls were in flight; one has stored its directory and
\* failed on the truncated archive, the other has stored a file and a
\* directory and has generated its zip
C20_Witness ==
    /\ pending # NoConversion
    /\ pending.pc = "failed"
    /\ Len(pending.zip) = 1
    /\ pc = "done"
    /\ zip = CallsFrom(1) \o <<GenerateCall>>
    /\ Len(zip) = 3

=============================================================================
